---- MODULE Spec2Model ----
(***************************************************************************)
(* A model of the DistributionScorer plugin of the Karmada scheduler       *)
(* (pkg/scheduler/framework/plugins/distributionscorer): the plugin's two  *)
(* entry points Score and NormalizeScore, and the pure functions they      *)
(* call (GenerateAllDistributions, CalculateDistributionMetrics,           *)
(* binPackNodes, FindBestDistribution, CollectMetrics).                    *)
(*                                                                         *)
(* Numbers.  Go's float64 metric values are modelled as exact rationals    *)
(* [n, d] in lowest terms; d = 0 stands for the non-finite results of a    *)
(* division by zero (n = 0: NaN, n = 1: +Inf).  Label values are small     *)
(* integers: CPU in units of 1000 millicores, memory in GiB.               *)
(***************************************************************************)
EXTENDS Integers, Sequences, FiniteSets, TLC

VARIABLES
    \* the DistributionScorer struct (distributionscorer.go:23-28)
    metricsStore, totalReplicas, cpuPerReplica, memoryPerReplica,
    \* the host's scheduling decision in progress
    phase, decisions, spec, scores, labels, scorePc, scoreRet, pre, norm,
    \* history: two Score calls of this decision have been in flight together
    overlap,
    \* the goroutines started by `go UpdateClusterWeights`, the context of the
    \* NormalizeScore call in progress, and history: what each NormalizeScore
    \* call returned (followed in SpecPublish)
    publishers, ctx, returned,
    \* one application of a pure function (SpecEnum, SpecMetrics, SpecBest)
    call

pluginVars == <<metricsStore, totalReplicas, cpuPerReplica, memoryPerReplica>>
asyncVars == <<publishers, ctx, returned>>
hostVars == <<phase, decisions, spec, scores, labels, scorePc, scoreRet, pre, norm, overlap,
              asyncVars>>
vars == <<pluginVars, hostVars, call>>

----------------------------------------------------------------------------
(* Bounds of the model *)

MaxReplicas == 3
MaxDecisions == 2
MaxK == 4
\* SpecBest: the replicas of the enumeration scored, the length of a score
\* list and the largest score
BestReplicas == 1
MaxScores == 2
MaxScore == 1

----------------------------------------------------------------------------
(* Helpers *)

Range(s) == {s[p] : p \in DOMAIN s}

Max2(a, b) == IF a >= b THEN a ELSE b

RECURSIVE SumOver(_, _)
SumOver(f, S) ==
    IF S = {} THEN 0
    ELSE LET c == CHOOSE x \in S : TRUE IN f[c] + SumOver(f, S \ {c})

\* the sum of a Go map's values
MapSum(m) == SumOver(m, DOMAIN m)

\* all orders in which a range loop may visit the keys S of a Go map
Orders(S) ==
    {o \in [1..Cardinality(S) -> S] : \A p, q \in DOMAIN o : p # q => o[p] # o[q]}

\* a Go map read m[k] of a map[string]int: the zero value when the key is absent
Get(m, k) == IF k \in DOMAIN m THEN m[k] ELSE 0

RECURSIVE Gcd(_, _)
Gcd(a, b) == IF b = 0 THEN a ELSE Gcd(b, a % b)

Abs(a) == IF a < 0 THEN -a ELSE a

\* the float64 value n/d; x/0 is NaN for x = 0 and +Inf for x > 0
Rat(n, d) ==
    IF d = 0 THEN [n |-> IF n = 0 THEN 0 ELSE 1, d |-> 0]
    ELSE LET g == Gcd(Abs(n), Abs(d))
             s == IF d < 0 THEN -1 ELSE 1
         IN [n |-> s * (n \div g), d |-> s * (d \div g)]

RInt(i) == [n |-> i, d |-> 1]
NaN == [n |-> 0, d |-> 0]
IsFinite(x) == x.d # 0
IsNaN(x) == x.d = 0 /\ x.n = 0

RAdd(x, y) ==
    IF IsNaN(x) \/ IsNaN(y) THEN NaN
    ELSE IF ~IsFinite(x) THEN x
    ELSE IF ~IsFinite(y) THEN y
    ELSE LET g == Gcd(x.d, y.d)
         IN Rat(x.n * (y.d \div g) + y.n * (x.d \div g), x.d * (y.d \div g))

RMul(x, y) ==
    IF IsNaN(x) \/ IsNaN(y) THEN NaN
    ELSE IF ~IsFinite(x) \/ ~IsFinite(y)
         THEN (IF x.n = 0 \/ y.n = 0 THEN NaN ELSE [n |-> 1, d |-> 0])
    ELSE LET g == Gcd(Abs(x.n), y.d)
             h == Gcd(Abs(y.n), x.d)
         IN Rat((x.n \div g) * (y.n \div h), (x.d \div h) * (y.d \div g))

\* x / y
RDiv(x, y) ==
    IF IsNaN(x) \/ IsNaN(y) THEN NaN
    ELSE IF ~IsFinite(x) THEN (IF IsFinite(y) THEN x ELSE NaN)
    ELSE IF ~IsFinite(y) THEN RInt(0)
    ELSE IF y.n = 0 THEN Rat(x.n, 0)
    ELSE LET g == Gcd(Abs(x.n), Abs(y.n))
             h == Gcd(x.d, y.d)
         IN Rat((x.n \div g) * (y.d \div h), (x.d \div h) * (y.n \div g))

RGt(x, y) == IsFinite(x) /\ IsFinite(y) /\ x.n * y.d > y.n * x.d

\* a Go map read m[k] of a map[string]float64
MGet(m, k) == IF k \in DOMAIN m THEN m[k] ELSE RInt(0)

\* math.Floor(x*1000) / 1000
Floor3(x) == IF ~IsFinite(x) THEN x ELSE Rat((x.n * 1000) \div x.d, 1000)

\* int64(x) of a finite float64: truncation toward zero
ToInt64(x) == IF x.n < 0 THEN -((-x.n) \div x.d) ELSE x.n \div x.d

\* floor(n * 100^k / d), by long division
RECURSIVE ScaleDiv(_, _, _, _)
ScaleDiv(q, r, d, k) ==
    IF k = 0 THEN q
    ELSE ScaleDiv(q * 100 + ((r * 100) \div d), (r * 100) % d, d, k - 1)

\* the largest s in lo..hi with s * s <= x
RECURSIVE ISqrt(_, _, _)
ISqrt(x, lo, hi) ==
    IF lo >= hi THEN lo
    ELSE LET mid == (lo + hi + 1) \div 2
         IN IF mid * mid <= x THEN ISqrt(x, mid, hi) ELSE ISqrt(x, lo, mid - 1)

\* math.Floor(math.Sqrt(v)*1000) / 1000 of a variance v
SqrtFloor3(v) ==
    IF ~IsFinite(v) THEN v
    ELSE Rat(ISqrt(ScaleDiv(v.n \div v.d, v.n % v.d, v.d, 3), 0, 46340), 1000)

----------------------------------------------------------------------------
(* Clusters and their labels *)

ClusterPool == {"edge", "fog", "cloud", "far"}

\* the attribute keys CollectMetrics reads
RecognizedKeys ==
    {"worker_cpu_capacity", "worker_memory_capacity", "control_plane_power",
     "control_plane_cost", "worker_power", "worker_cost", "max_worker_nodes",
     "latency"}

\* a label value: a text that strconv.ParseFloat accepts (with its value) or not
Num(v) == [numeric |-> TRUE, value |-> RInt(v)]
Garbage == [numeric |-> FALSE, value |-> RInt(0)]

\* strconv.ParseFloat(text, 64)
ParseFloat(text) ==
    IF text.numeric THEN [err |-> FALSE, f |-> text.value]
    ELSE [err |-> TRUE, f |-> RInt(0)]

\* a collector that supplies 10000 for a max_worker_nodes label it cannot read
CollectMetricsWithDefault(name, lbl) ==
    [Name |-> name,
     Metrics |-> [k \in {x \in RecognizedKeys \cap DOMAIN lbl : ~ParseFloat(lbl[x]).err}
                         \cup {"max_worker_nodes"} |->
                    IF k \in DOMAIN lbl /\ ~ParseFloat(lbl[k]).err
                    THEN ParseFloat(lbl[k]).f ELSE RInt(10000)]]

\* CollectMetrics of a cluster named name with label map lbl
CollectMetrics(name, lbl) ==
    [Name |-> name,
     Metrics |-> [k \in {x \in RecognizedKeys \cap DOMAIN lbl : ~ParseFloat(lbl[x]).err}
                    |-> ParseFloat(lbl[k]).f]]

\* a full label set
Attributes(cpu, mem, cpPower, cpCost, wPower, wCost, maxNodes, latency) ==
    [k \in RecognizedKeys |->
        Num(CASE k = "worker_cpu_capacity" -> cpu
              [] k = "worker_memory_capacity" -> mem
              [] k = "control_plane_power" -> cpPower
              [] k = "control_plane_cost" -> cpCost
              [] k = "worker_power" -> wPower
              [] k = "worker_cost" -> wCost
              [] k = "max_worker_nodes" -> maxNodes
              [] OTHER -> latency)]

\* the labels of the reference deployment (CPU in 1000 millicores, memory in GiB)
ReferenceLabels(c) ==
    CASE c = "edge" -> Attributes(2, 4, 40, 60, 40, 60, 4, 10)
      [] c = "fog" -> Attributes(4, 8, 30, 45, 70, 100, 8, 25)
      [] c = "cloud" -> Attributes(8, 16, 15, 30, 100, 140, 16, 50)
      [] OTHER -> Attributes(4, 8, 20, 25, 50, 80, 2, 80)

\* the same cluster allowed a single worker node
SmallLabels(c) == [ReferenceLabels(c) EXCEPT !["max_worker_nodes"] = Num(1)]

\* a cluster with worker_power unlabelled, worker_cost unparseable and a label
\* the collector does not know
SparseLabels(c) ==
    [k \in (RecognizedKeys \ {"worker_power"}) \cup {"region"} |->
        IF k \in {"worker_cost", "region"} THEN Garbage ELSE ReferenceLabels(c)[k]]

LabelVariants(c) == {ReferenceLabels(c), SmallLabels(c), SparseLabels(c)}

----------------------------------------------------------------------------
(* GenerateAllDistributions *)

\* fmt.Sprintf("(%d,%d,%d)", i, j, k)
FormatID(i, j, k) ==
    "(" \o ToString(i) \o "," \o ToString(j) \o "," \o ToString(k) \o ")"

\* a slip: the first two counts go to each other's cluster
NewAllocationSwapped(clusterNames, i, j, k) ==
    [c \in {clusterNames[1], clusterNames[2], clusterNames[3]} |->
        IF c = clusterNames[3] THEN k ELSE IF c = clusterNames[2] THEN i ELSE j]

\* the map literal {clusterNames[0]: i, clusterNames[1]: j, clusterNames[2]: k}
NewAllocation(clusterNames, i, j, k) ==
    [c \in {clusterNames[1], clusterNames[2], clusterNames[3]} |->
        IF c = clusterNames[3] THEN k ELSE IF c = clusterNames[2] THEN j ELSE i]

NoMetrics == [key \in {} |-> RInt(0)]

NewDistribution(clusterNames, i, j, k) ==
    [ID |-> FormatID(i, j, k),
     Allocation |-> NewAllocation(clusterNames, i, j, k),
     Metrics |-> NoMetrics]

\* the loop body reads clusterNames[0..2]: an index out of range panics
GenPanics(clusterNames, n) == n >= 0 /\ Len(clusterNames) < 3

\* k computed from i alone
LastShareForgetsJ(n, i, j) == n - i

\* k := totalReplicas - i - j (part_004 line 18)
LastShare(n, i, j) == n - i - j

RECURSIVE GenLoop(_, _, _, _, _)
GenLoop(clusterNames, n, i, j, distributions) ==
    IF i > n THEN distributions
    ELSE IF j > n - i THEN GenLoop(clusterNames, n, i + 1, 0, distributions)
    ELSE GenLoop(clusterNames, n, i, j + 1,
                 Append(distributions, NewDistribution(clusterNames, i, j, LastShare(n, i, j))))

\* the returned slice, when the call does not panic
GenerateAllDistributions(clusterNames, n) ==
    IF n < 0 THEN <<>> ELSE GenLoop(clusterNames, n, 0, 0, <<>>)

----------------------------------------------------------------------------
(* binPackNodes *)

\* the value standing for a call that never returns
Diverges == -1

RECURSIVE FitLoop(_, _, _, _, _, _, _, _)
FitLoop(fit, remaining, usedCPU, usedMem, perReplicaCPU, perReplicaMem, nodeCPU, nodeMem) ==
    IF fit < remaining
       /\ ~(RGt(RAdd(usedCPU, perReplicaCPU), nodeCPU)
            \/ RGt(RAdd(usedMem, perReplicaMem), nodeMem))
    THEN FitLoop(fit + 1, remaining, RAdd(usedCPU, perReplicaCPU),
                 RAdd(usedMem, perReplicaMem), perReplicaCPU, perReplicaMem,
                 nodeCPU, nodeMem)
    ELSE fit

RECURSIVE PackLoop(_, _, _, _, _, _)
PackLoop(nodes, remaining, perReplicaCPU, perReplicaMem, nodeCPU, nodeMem) ==
    IF remaining > 0
    THEN LET fit == FitLoop(0, remaining, RInt(0), RInt(0), perReplicaCPU,
                            perReplicaMem, nodeCPU, nodeMem)
         IN IF fit = 0 THEN Diverges
            ELSE PackLoop(nodes + 1, remaining - fit, perReplicaCPU, perReplicaMem,
                          nodeCPU, nodeMem)
    ELSE nodes

\* every replica on a node of its own
binPackOnePerNode(replicaCount, perReplicaCPU, perReplicaMem, nodeCPU, nodeMem) ==
    replicaCount

binPackNodes(replicaCount, perReplicaCPU, perReplicaMem, nodeCPU, nodeMem) ==
    PackLoop(0, replicaCount, perReplicaCPU, perReplicaMem, nodeCPU, nodeMem)

----------------------------------------------------------------------------
(* CalculateDistributionMetrics *)

\* clusterMetrics[clusterName].Metrics[key]: zero for an absent cluster or key
MetricOf(clusterMetrics, clusterName, key) ==
    IF clusterName \in DOMAIN clusterMetrics
    THEN MGet(clusterMetrics[clusterName].Metrics, key) ELSE RInt(0)

RECURSIVE RSum(_, _)
RSum(f, S) ==
    IF S = {} THEN RInt(0)
    ELSE LET c == CHOOSE x \in S : TRUE IN RAdd(f[c], RSum(f, S \ {c}))

\* the nodes binPackNodes returns for replicaCount replicas on clusterName
NodesRequired(clusterMetrics, clusterName, replicaCount, cpu, mem) ==
    binPackNodes(replicaCount, RInt(cpu), RInt(mem),
                 MetricOf(clusterMetrics, clusterName, "worker_cpu_capacity"),
                 MetricOf(clusterMetrics, clusterName, "worker_memory_capacity"))

\* a slip: the control plane's power is charged, its cost is not
ChargeControlPlanePowerOnly(acc, metrics) ==
    [acc EXCEPT !.totalPower = RAdd(@, MGet(metrics, "control_plane_power"))]

\* lines 52-55: the control plane's fixed power and cost, replicas or not
ChargeControlPlane(acc, metrics) ==
    [acc EXCEPT !.totalPower = RAdd(@, MGet(metrics, "control_plane_power")),
                !.totalCost = RAdd(@, MGet(metrics, "control_plane_cost"))]

\* line 70: a single replica exceeds the worker node's capacity
ExceedsCapacity(cpu, mem, workerCPUCapacity, workerMemoryCapacity) ==
    cpu > ToInt64(workerCPUCapacity) \/ mem > ToInt64(workerMemoryCapacity)

\* a slip: a cluster filled to its last node is rejected
ExceedsMaxNodesOrFills(nodesRequired, maxWorkerNodes) ==
    ~RGt(maxWorkerNodes, nodesRequired)

\* line 85
ExceedsMaxNodes(nodesRequired, maxWorkerNodes) == RGt(nodesRequired, maxWorkerNodes)

\* a slip: the count recorded for the cluster is one node more than charged
ChargeWorkersRecordsSpare(acc, clusterName, metrics, nodesRequired) ==
    [acc EXCEPT
       !.nodesByCluster = (clusterName :> RAdd(nodesRequired, RInt(1))) @@ @,
       !.totalPower = RAdd(@, RMul(MGet(metrics, "worker_power"), nodesRequired)),
       !.totalCost = RAdd(@, RMul(MGet(metrics, "worker_cost"), nodesRequired))]

\* lines 92-98: the worker nodes of a cluster with replicas
ChargeWorkers(acc, clusterName, metrics, nodesRequired) ==
    [acc EXCEPT
       !.nodesByCluster = (clusterName :> nodesRequired) @@ @,
       !.totalPower = RAdd(@, RMul(MGet(metrics, "worker_power"), nodesRequired)),
       !.totalCost = RAdd(@, RMul(MGet(metrics, "worker_cost"), nodesRequired))]

\* the loop over dist.Allocation (lines 45-106), visiting the keys in order;
\* acc.rejected is the early return false, acc.hangs a call of binPackNodes
\* that does not return
RECURSIVE AccountLoop(_, _, _, _, _, _, _)
AccountLoop(dist, clusterMetrics, cpu, mem, order, p, acc) ==
    IF p > Len(order) THEN acc
    ELSE
      LET clusterName == order[p]
          replicaCount == dist.Allocation[clusterName]
          counted == [acc EXCEPT
                        !.totalReplicas = @ + replicaCount,
                        !.totalMaxNodes =
                            RAdd(@, MetricOf(clusterMetrics, clusterName, "max_worker_nodes"))]
      IN
      IF clusterName \notin DOMAIN clusterMetrics
      THEN [counted EXCEPT !.rejected = TRUE]
      ELSE
        LET metrics == clusterMetrics[clusterName].Metrics
            idle == ChargeControlPlane(counted, metrics)
            workerCPUCapacity == MGet(metrics, "worker_cpu_capacity")
            workerMemoryCapacity == MGet(metrics, "worker_memory_capacity")
            maxWorkerNodes == MGet(metrics, "max_worker_nodes")
        IN
        IF replicaCount = 0
        THEN AccountLoop(dist, clusterMetrics, cpu, mem, order, p + 1, idle)
        ELSE IF ExceedsCapacity(cpu, mem, workerCPUCapacity, workerMemoryCapacity)
        THEN [idle EXCEPT !.rejected = TRUE]
        ELSE
          LET nodesRequired ==
                  RInt(binPackNodes(replicaCount, RInt(cpu), RInt(mem),
                                    workerCPUCapacity, workerMemoryCapacity))
          IN
          IF nodesRequired = RInt(Diverges)
          THEN [idle EXCEPT !.hangs = TRUE]
          ELSE IF ExceedsMaxNodes(nodesRequired, maxWorkerNodes)
          THEN [idle EXCEPT !.rejected = TRUE]
          ELSE AccountLoop(dist, clusterMetrics, cpu, mem, order, p + 1,
                           ChargeWorkers(idle, clusterName, metrics, nodesRequired))

NoNodes == [c \in {} |-> RInt(0)]

AccountStart ==
    [rejected |-> FALSE, hangs |-> FALSE, totalPower |-> RInt(0), totalCost |-> RInt(0),
     nodesByCluster |-> NoNodes, totalReplicas |-> 0, totalMaxNodes |-> RInt(0)]

\* calculateUtilization
calculateUtilization(dist, clusterMetrics, cpu, mem, nodesByCluster) ==
    LET used == {c \in DOMAIN dist.Allocation : dist.Allocation[c] # 0}
        packing == [c \in used |->
            LET replicaCount == RInt(dist.Allocation[c])
                nodesRequired == MGet(nodesByCluster, c)
                cpuUtil == RDiv(RMul(replicaCount, RInt(cpu)),
                                RMul(nodesRequired,
                                     MetricOf(clusterMetrics, c, "worker_cpu_capacity")))
                memUtil == RDiv(RMul(replicaCount, RInt(mem)),
                                RMul(nodesRequired,
                                     MetricOf(clusterMetrics, c, "worker_memory_capacity")))
            IN RMul(RDiv(RAdd(cpuUtil, memUtil), RInt(2)), replicaCount)]
        replicas == SumOver(dist.Allocation, used)
    IN IF replicas = 0 THEN RInt(0)
       ELSE Floor3(RDiv(RSum(packing, used), RInt(replicas)))

\* the variance calculateStandardDeviation takes the square root of
Variance(loadRatios, S) ==
    LET n == RInt(Cardinality(S))
        mean == RDiv(RSum(loadRatios, S), n)
        sq == [c \in S |->
                 LET diff == RAdd(loadRatios[c], RMul(RInt(-1), mean))
                 IN IF IsFinite(diff) /\ IsFinite(mean) THEN RMul(diff, diff) ELSE NaN]
    IN RDiv(RSum(sq, S), n)

\* math.Floor(calculateLoadBalanceStdDev(...)*1000) / 1000
calculateLoadBalanceStdDev(dist, clusterMetrics, replicas) ==
    IF replicas = 0 THEN RInt(0)
    ELSE
      LET S == DOMAIN clusterMetrics
          capacity == [c \in S |->
                         RMul(MetricOf(clusterMetrics, c, "max_worker_nodes"),
                              MetricOf(clusterMetrics, c, "worker_cpu_capacity"))]
          totalCPUCapacity == RSum(capacity, S)
          loadRatios == [c \in S |->
                           RDiv(RDiv(RInt(Get(dist.Allocation, c)), RInt(replicas)),
                                RDiv(capacity[c], totalCPUCapacity))]
      IN IF Cardinality(S) <= 1 THEN RInt(0)
         ELSE SqrtFloor3(Variance(loadRatios, S))

\* calculateWeightedLatency
calculateWeightedLatency(dist, clusterMetrics) ==
    LET used == {c \in DOMAIN dist.Allocation : dist.Allocation[c] # 0}
        weight == [c \in used |->
                     RMul(RInt(dist.Allocation[c]), MetricOf(clusterMetrics, c, "latency"))]
    IN RDiv(RSum(weight, used), RInt(MapSum(dist.Allocation)))

\* the metric bag written at lines 109-128
FeasibleMetrics(dist, clusterMetrics, cpu, mem, acc) ==
    [k \in {"power", "cost", "utilization", "load_balance_std_dev", "weighted_latency"}
            \cup {"worker_nodes_" \o c : c \in DOMAIN acc.nodesByCluster} |->
        CASE k = "power" -> acc.totalPower
          [] k = "cost" -> acc.totalCost
          [] k = "utilization" ->
                Floor3(calculateUtilization(dist, clusterMetrics, cpu, mem, acc.nodesByCluster))
          [] k = "load_balance_std_dev" ->
                calculateLoadBalanceStdDev(dist, clusterMetrics, acc.totalReplicas)
          [] k = "weighted_latency" -> calculateWeightedLatency(dist, clusterMetrics)
          [] OTHER ->
                LET c == CHOOSE x \in DOMAIN acc.nodesByCluster : k = "worker_nodes_" \o x
                IN acc.nodesByCluster[c]]

\* a slip: power and cost are written as the loop goes, so a rejected
\* allocation keeps what was summed before the rejection
CalculateWritesBeforeReject(dist, clusterMetrics, cpu, mem, order) ==
    LET acc == AccountLoop(dist, clusterMetrics, cpu, mem, order, 1, AccountStart)
    IN IF acc.hangs THEN [feasible |-> FALSE, hangs |-> TRUE, dist |-> dist]
       ELSE IF acc.rejected
       THEN [feasible |-> FALSE, hangs |-> FALSE,
             dist |-> [dist EXCEPT !.Metrics =
                         ("power" :> acc.totalPower) @@ ("cost" :> acc.totalCost) @@ @]]
       ELSE [feasible |-> TRUE, hangs |-> FALSE,
             dist |-> [dist EXCEPT !.Metrics =
                         FeasibleMetrics(dist, clusterMetrics, cpu, mem, acc) @@ @]]

\* CalculateDistributionMetrics(&dist, clusterMetrics, cpu, mem), the range loop
\* visiting dist.Allocation in order: the returned bool and dist afterwards,
\* or hangs when the call does not return
CalculateDistributionMetrics(dist, clusterMetrics, cpu, mem, order) ==
    LET acc == AccountLoop(dist, clusterMetrics, cpu, mem, order, 1, AccountStart)
    IN IF acc.hangs THEN [feasible |-> FALSE, hangs |-> TRUE, dist |-> dist]
       ELSE IF acc.rejected THEN [feasible |-> FALSE, hangs |-> FALSE, dist |-> dist]
       ELSE [feasible |-> TRUE, hangs |-> FALSE,
             dist |-> [dist EXCEPT !.Metrics =
                         FeasibleMetrics(dist, clusterMetrics, cpu, mem, acc) @@ @]]

----------------------------------------------------------------------------
(* FindBestDistribution *)

NoDistribution == [ID |-> "nil", Allocation |-> [c \in {} |-> 0], Metrics |-> NoMetrics]

\* the first distribution with the given ID (lines 57-63), if any
RECURSIVE Lookup(_, _, _)
Lookup(distributions, id, p) ==
    IF p > Len(distributions) THEN [found |-> FALSE, dist |-> NoDistribution]
    ELSE IF distributions[p].ID = id THEN [found |-> TRUE, dist |-> distributions[p]]
    ELSE Lookup(distributions, id, p + 1)

RECURSIVE BestLoop(_, _, _, _, _)
BestLoop(distributions, scoreList, p, bestScore, bestDist) ==
    IF p > Len(scoreList) THEN bestDist
    ELSE IF scoreList[p].Score > bestScore
    THEN LET hit == Lookup(distributions, scoreList[p].ID, 1)
         IN BestLoop(distributions, scoreList, p + 1, scoreList[p].Score,
                     IF hit.found THEN [nil |-> FALSE, dist |-> hit.dist] ELSE bestDist)
    ELSE BestLoop(distributions, scoreList, p + 1, bestScore, bestDist)

\* without scores, the first distribution stands in
FindBestOrFirst(distributions, response) ==
    IF response.nil \/ Len(response.Scores) = 0
    THEN (IF Len(distributions) = 0 THEN [nil |-> TRUE, dist |-> NoDistribution]
          ELSE [nil |-> FALSE, dist |-> distributions[1]])
    ELSE BestLoop(distributions, response.Scores, 1, -1,
                  [nil |-> TRUE, dist |-> NoDistribution])

\* FindBestDistribution(distributions, &response): response.nil is a nil pointer
FindBestDistribution(distributions, response) ==
    IF response.nil \/ Len(response.Scores) = 0
    THEN [nil |-> TRUE, dist |-> NoDistribution]
    ELSE BestLoop(distributions, response.Scores, 1, -1,
                  [nil |-> TRUE, dist |-> NoDistribution])

----------------------------------------------------------------------------
(* The plugin after New(), and a host that has not started a decision *)

NoStore == [c \in {} |-> [Name |-> c, Metrics |-> NoMetrics]]

NoSpec == [Replicas |-> 0, HasRequirements |-> FALSE, ResourceRequest |-> [k \in {} |-> 0]]

NoResponse == [nil |-> TRUE, Scores |-> <<>>]

NoRequest == [Distributions |-> <<>>, Criteria |-> [k \in {} |-> <<>>]]

NoNorm ==
    [result |-> "none",
     demand |-> [totalReplicas |-> 0, cpuPerReplica |-> 0, memoryPerReplica |-> 0],
     distributions |-> <<>>, feasible |-> <<>>,
     requested |-> FALSE, request |-> NoRequest, evaluator |-> "none",
     response |-> NoResponse, best |-> [nil |-> TRUE, dist |-> NoDistribution],
     launched |-> FALSE, weights |-> [c \in {} |-> 0],
     scores |-> <<>>]

NewPlugin ==
    /\ metricsStore = NoStore
    /\ totalReplicas = 0
    /\ cpuPerReplica = 0
    /\ memoryPerReplica = 0

PluginState ==
    [metricsStore |-> metricsStore, totalReplicas |-> totalReplicas,
     cpuPerReplica |-> cpuPerReplica, memoryPerReplica |-> memoryPerReplica]

HostIdle ==
    /\ phase = "idle"
    /\ decisions = 0
    /\ spec = NoSpec
    /\ scores = <<>>
    /\ labels = [c \in {} |-> [k \in {} |-> Garbage]]
    /\ scorePc = [c \in {} |-> "start"]
    /\ scoreRet = [c \in {} |-> <<>>]
    /\ pre = [metricsStore |-> NoStore, totalReplicas |-> 0,
              cpuPerReplica |-> 0, memoryPerReplica |-> 0]
    /\ norm = NoNorm
    /\ overlap = FALSE
    /\ publishers = <<>>
    /\ ctx = "live"
    /\ returned = <<>>

----------------------------------------------------------------------------
(* SpecEnum: GenerateAllDistributions applied to bounded inputs *)

\* the ordered sequences of 1..MaxK distinct cluster names
NameSeqs ==
    UNION {{q \in [1..k -> ClusterPool] : \A a, b \in 1..k : a # b => q[a] # q[b]}
           : k \in 1..MaxK}

InitEnum ==
    /\ NewPlugin /\ HostIdle
    /\ call \in [fn : {"GenerateAllDistributions"}, pc : {"ready"},
                  clusterNames : NameSeqs, totalReplicas : -1..MaxReplicas,
                  out : {<<>>}]

EnumCall ==
    /\ call.pc = "ready"
    /\ call' = IF GenPanics(call.clusterNames, call.totalReplicas)
               THEN [call EXCEPT !.pc = "panic"]
               ELSE [call EXCEPT !.pc = "returned",
                        !.out = GenerateAllDistributions(call.clusterNames,
                                                         call.totalReplicas)]
    /\ UNCHANGED <<pluginVars, hostVars>>

NextEnum == EnumCall

SpecEnum == InitEnum /\ [][NextEnum]_vars

\* the vectors of k non-negative integers that sum to n
Compositions(k, n) ==
    IF n < 0 THEN {} ELSE {v \in [1..k -> 0..n] : SumOver(v, 1..k) = n}

\* the replica vector of an allocation in the order of clusterNames
VectorOf(allocation, clusterNames) ==
    [p \in 1..Len(clusterNames) |-> allocation[clusterNames[p]]]

\* C2: for every sequence of K >= 1 distinct cluster names and every N, the
\* enumerator returns (it does not fail) every vector of K non-negative
\* integers summing to N exactly once, and nothing else.
C2_EveryCompositionOnce ==
    call.pc # "ready" =>
        /\ call.pc = "returned"
        /\ \A p \in 1..Len(call.out) :
              /\ DOMAIN call.out[p].Allocation = Range(call.clusterNames)
              /\ VectorOf(call.out[p].Allocation, call.clusterNames)
                    \in Compositions(Len(call.clusterNames), call.totalReplicas)
        /\ \A v \in Compositions(Len(call.clusterNames), call.totalReplicas) :
              Cardinality({p \in 1..Len(call.out) :
                  /\ DOMAIN call.out[p].Allocation = Range(call.clusterNames)
                  /\ VectorOf(call.out[p].Allocation, call.clusterNames) = v}) = 1

\* the same statement restricted to K = 3, where the code's three nested
\* indices cover the whole vector
C2_HoldsForThree ==
    (call.pc # "ready" /\ Len(call.clusterNames) = 3) =>
        /\ call.pc = "returned"
        /\ \A p \in 1..Len(call.out) :
              /\ DOMAIN call.out[p].Allocation = Range(call.clusterNames)
              /\ VectorOf(call.out[p].Allocation, call.clusterNames)
                    \in Compositions(3, call.totalReplicas)
        /\ \A v \in Compositions(3, call.totalReplicas) :
              Cardinality({p \in 1..Len(call.out) :
                  VectorOf(call.out[p].Allocation, call.clusterNames) = v}) = 1

----------------------------------------------------------------------------
(* SpecMetrics: CalculateDistributionMetrics applied to bounded inputs *)

ThreeClusters == <<"edge", "fog", "cloud">>

\* per-replica requests of a workload; 0 is a request the spec does not carry
CpuRequests == {0, 2, 3}
MemRequests == {0, 1, 5}

\* the metric maps NormalizeScore can build: any subset of the clusters, each
\* with the metrics collected from one of its label sets
MetricMaps(S) ==
    UNION {{[c \in T |-> CollectMetrics(c, pick[c])] :
              pick \in {f \in [T -> UNION {LabelVariants(c) : c \in T}] :
                           \A c \in T : f[c] \in LabelVariants(c)}}
           : T \in SUBSET S}

InitMetrics ==
    /\ NewPlugin /\ HostIdle
    /\ \E n \in 0..MaxReplicas :
         \E p \in 1..Len(GenerateAllDistributions(ThreeClusters, n)) :
         \E cm \in MetricMaps(Range(ThreeClusters)) :
         \E cpu \in CpuRequests, mem \in MemRequests :
           call = [fn |-> "CalculateDistributionMetrics", pc |-> "ready",
                   dist |-> GenerateAllDistributions(ThreeClusters, n)[p],
                   clusterMetrics |-> cm, cpu |-> cpu, mem |-> mem,
                   order |-> <<>>,
                   out |-> [feasible |-> FALSE, hangs |-> FALSE,
                            dist |-> NoDistribution]]

MetricsCall ==
    /\ call.pc = "ready"
    /\ \E order \in Orders(DOMAIN call.dist.Allocation) :
         LET out == CalculateDistributionMetrics(call.dist, call.clusterMetrics,
                                                 call.cpu, call.mem, order)
         IN call' = [call EXCEPT !.pc = IF out.hangs THEN "looping" ELSE "returned",
                                 !.order = order, !.out = out]
    /\ UNCHANGED <<pluginVars, hostVars>>

NextMetrics == MetricsCall

SpecMetrics == InitMetrics /\ [][NextMetrics]_vars

\* the feasibility rule of the specification, for the allocation dist
FeasibleByRule(dist, clusterMetrics, cpu, mem) ==
    \A c \in DOMAIN dist.Allocation :
       /\ c \in DOMAIN clusterMetrics
       /\ dist.Allocation[c] > 0 =>
            /\ ~RGt(RInt(cpu), MetricOf(clusterMetrics, c, "worker_cpu_capacity"))
            /\ ~RGt(RInt(mem), MetricOf(clusterMetrics, c, "worker_memory_capacity"))
            /\ ~RGt(RInt(NodesRequired(clusterMetrics, c, dist.Allocation[c], cpu, mem)),
                    MetricOf(clusterMetrics, c, "max_worker_nodes"))

\* C3: CalculateDistributionMetrics retains an allocation if and only if every
\* cluster of the allocation has an entry in the metric map and every cluster
\* with more than 0 replicas has cpuPerReplica <= worker_cpu_capacity,
\* memoryPerReplica <= worker_memory_capacity and nodes_required <=
\* max_worker_nodes, in whatever order the allocation map is visited.
C3_FeasibleIffRule ==
    call.pc = "returned" =>
        (call.out.feasible <=>
            FeasibleByRule(call.dist, call.clusterMetrics, call.cpu, call.mem))

\* an allocation kept although one of its clusters has nodes too small for a
\* replica: that cluster gets 0 replicas
C3_Witness ==
    /\ call.pc = "returned"
    /\ call.out.feasible
    /\ MapSum(call.dist.Allocation) > 0
    /\ \E c \in DOMAIN call.dist.Allocation :
          /\ call.dist.Allocation[c] = 0
          /\ RGt(RInt(call.cpu), MetricOf(call.clusterMetrics, c, "worker_cpu_capacity"))

\* sum over the clusters S of the allocation of fixed(c), plus over those with
\* replicas of perNode(c) times the nodes the cluster requires
Accounted(dist, clusterMetrics, cpu, mem, fixed, perNode) ==
    LET all == DOMAIN dist.Allocation
        used == {c \in all : dist.Allocation[c] > 0}
    IN RAdd(RSum([c \in all |-> MetricOf(clusterMetrics, c, fixed)], all),
            RSum([c \in used |->
                    RMul(MetricOf(clusterMetrics, c, perNode),
                         RInt(NodesRequired(clusterMetrics, c, dist.Allocation[c],
                                            cpu, mem)))], used))

\* C4: for every feasible allocation the stored power is the sum of
\* control_plane_power over all clusters of the allocation, idle ones
\* included, plus worker_power times nodes_required over the clusters with
\* replicas, and the stored cost is the same with control_plane_cost and
\* worker_cost.
C4_PowerAndCost ==
    (call.pc = "returned" /\ call.out.feasible) =>
        /\ call.out.dist.Metrics["power"] =
              Accounted(call.dist, call.clusterMetrics, call.cpu, call.mem,
                        "control_plane_power", "worker_power")
        /\ call.out.dist.Metrics["cost"] =
              Accounted(call.dist, call.clusterMetrics, call.cpu, call.mem,
                        "control_plane_cost", "worker_cost")

\* Scenario 4: allocation (1,1,0) on the reference clusters draws 85 + 110
C4_Witness ==
    /\ call.pc = "returned"
    /\ call.out.feasible
    /\ call.dist.ID = "(1,1,0)"
    /\ \A c \in Range(ThreeClusters) :
          /\ c \in DOMAIN call.clusterMetrics
          /\ call.clusterMetrics[c] = CollectMetrics(c, ReferenceLabels(c))
    /\ call.out.dist.Metrics["power"] = RInt(195)
    /\ call.out.dist.Metrics["cost"] = RInt(295)

----------------------------------------------------------------------------
(* SpecBest: FindBestDistribution applied to bounded inputs *)

\* the subsequence of s at the positions I
RECURSIVE SubSeqAt(_, _, _)
SubSeqAt(s, I, p) ==
    IF p > Len(s) THEN <<>>
    ELSE IF p \in I THEN <<s[p]>> \o SubSeqAt(s, I, p + 1)
    ELSE SubSeqAt(s, I, p + 1)

SubSeqs(s) == {SubSeqAt(s, I, 1) : I \in SUBSET (1..Len(s))}

\* the score entries an evaluator may answer with: the ids of the enumeration,
\* an id the request did not hold, and scores from -1
ScoreEntries(distributions) ==
    [ID : {distributions[p].ID : p \in 1..Len(distributions)} \cup {"(9,9,9)"},
     Score : -1..MaxScore]

InitBest ==
    /\ NewPlugin /\ HostIdle
    /\ LET all == GenerateAllDistributions(ThreeClusters, BestReplicas)
       IN \E F \in SubSeqs(all) :
          \E response \in
                {NoResponse} \cup
                {[nil |-> FALSE, Scores |-> S] :
                    S \in UNION {[1..k -> ScoreEntries(all)] : k \in 0..MaxScores}} :
            call = [fn |-> "FindBestDistribution", pc |-> "ready",
                    distributions |-> F, scores |-> response,
                    out |-> [nil |-> TRUE, dist |-> NoDistribution]]

BestCall ==
    /\ call.pc = "ready"
    /\ call' = [call EXCEPT !.pc = "returned",
                   !.out = FindBestDistribution(call.distributions, call.scores)]
    /\ UNCHANGED <<pluginVars, hostVars>>

NextBest == BestCall

SpecBest == InitBest /\ [][NextBest]_vars

\* S scores every allocation of F exactly once, no other id, no negative score
WellScored(F, S) ==
    /\ Len(F) > 0
    /\ Len(S) = Len(F)
    /\ \A p \in 1..Len(F) : Cardinality({q \in 1..Len(S) : S[q].ID = F[p].ID}) = 1
    /\ \A q \in 1..Len(S) : S[q].Score >= 0

ScoreIn(S, id) == S[CHOOSE q \in 1..Len(S) : S[q].ID = id].Score

\* the first position of F, in F's order, whose score in S is maximal
FirstMaximal(F, S) ==
    CHOOSE p \in 1..Len(F) :
        /\ \A q \in 1..Len(F) : ScoreIn(S, F[q].ID) <= ScoreIn(S, F[p].ID)
        /\ \A q \in 1..(p - 1) : ScoreIn(S, F[q].ID) < ScoreIn(S, F[p].ID)

\* C5: given the feasible set F and scores S for it, FindBestDistribution
\* returns the allocation of F with the maximal score, and among several with
\* the maximal score the first in the order of F, whatever the order of S.
C5_FirstInEnumerationOrder ==
    (call.pc = "returned" /\ ~call.scores.nil
        /\ WellScored(call.distributions, call.scores.Scores)) =>
        /\ ~call.out.nil
        /\ call.out.dist =
              call.distributions[FirstMaximal(call.distributions, call.scores.Scores)]

\* what the code does on such inputs: it returns an allocation of F with the
\* maximal score, the one whose score comes first in the order of S
C5_FirstInScoreOrder ==
    (call.pc = "returned" /\ ~call.scores.nil
        /\ WellScored(call.distributions, call.scores.Scores)) =>
        LET S == call.scores.Scores
            q == CHOOSE a \in 1..Len(S) :
                    /\ \A b \in 1..Len(S) : S[b].Score <= S[a].Score
                    /\ \A b \in 1..(a - 1) : S[b].Score < S[a].Score
        IN ~call.out.nil /\ call.out.dist.ID = S[q].ID

----------------------------------------------------------------------------
(* Score *)

\* framework.MinClusterScore and framework.Success, by name
MinClusterScore == "MinClusterScore"

Success == "Success"

Error == "Error"

\* r.totalReplicas = spec.Replicas (line 46)
CapturedReplicas(current, sp) == sp.Replicas

\* lines 49-56: a field is written only when the spec carries the resource;
\* a quantity is held as its MilliValue() or Value()
CapturedRequest(current, sp, resource) ==
    IF sp.HasRequirements /\ resource \in DOMAIN sp.ResourceRequest
    THEN sp.ResourceRequest[resource]
    ELSE current

\* metricsStore.LoadOrStore in place of Store
StoreMetricsKeepFirst(store, name, metrics) ==
    IF name \in DOMAIN store THEN store ELSE (name :> metrics) @@ store

\* one Metrics map shared by every entry of the store
StoreMetricsAliased(store, name, metrics) ==
    [c \in DOMAIN store \cup {name} |-> [Name |-> c, Metrics |-> metrics.Metrics]]

\* r.metricsStore.Store(cluster.Name, metrics) (line 66)
StoreMetrics(store, name, metrics) == (name :> metrics) @@ store

\* the plugin after lines 46-56 of a Score call with spec sp
CaptureDemand(p, sp) ==
    [p EXCEPT !.totalReplicas = CapturedReplicas(@, sp),
              !.cpuPerReplica = CapturedRequest(@, sp, "cpu"),
              !.memoryPerReplica = CapturedRequest(@, sp, "memory")]

\* the plugin after lines 62-66 of a Score call for the cluster
CacheMetrics(p, cluster, lbl) ==
    [p EXCEPT !.metricsStore = StoreMetrics(@, cluster, CollectMetrics(cluster, lbl))]

\* the plugin after one whole Score call
ScoreCall(p, sp, cluster, lbl) == CacheMetrics(CaptureDemand(p, sp), cluster, lbl)

\* the plugin after Score calls for scoreList[i..], one after the other
RECURSIVE SerialScores(_, _, _, _, _)
SerialScores(p, sp, scoreList, lbls, i) ==
    IF i > Len(scoreList) THEN p
    ELSE SerialScores(ScoreCall(p, sp, scoreList[i], lbls[scoreList[i]]),
                      sp, scoreList, lbls, i + 1)

----------------------------------------------------------------------------
(* getCriteriaForProfile and the evaluator *)

selectedProfile == "balance"

Criteria == {"power", "cost", "utilization", "proportionality", "weighted_latency"}

\* the criterion a profile name favours (the case labels of lines 192-278)
FavouredBy(profile) ==
    CASE profile \in {"power30", "power50"} -> "power"
      [] profile \in {"cost30", "cost50"} -> "cost"
      [] profile \in {"latency30", "latency50"} -> "weighted_latency"
      [] profile \in {"utilization30", "utilization50"} -> "utilization"
      [] profile \in {"proportionality30", "proportionality50"} -> "proportionality"
      [] OTHER -> "none"

Favoured30 == {"power30", "cost30", "latency30", "utilization30", "proportionality30"}

\* lines 188-289: weights in thousandths
getCriteriaForProfile(profile) ==
    [c \in Criteria |->
        [HigherIsBetter |-> (c = "utilization"),
         Weight |->
            IF FavouredBy(profile) = "none" THEN Rat(200, 1000)
            ELSE IF profile \in Favoured30
                 THEN (IF c = FavouredBy(profile) THEN Rat(300, 1000) ELSE Rat(175, 1000))
                 ELSE (IF c = FavouredBy(profile) THEN Rat(500, 1000) ELSE Rat(125, 1000))]]

\* json.Marshal refuses a float64 that is NaN or infinite (ahp.go:18-21)
MarshalFails(request) ==
    \E p \in 1..Len(request.Distributions) :
        \E key \in DOMAIN request.Distributions[p].Metrics :
            ~IsFinite(request.Distributions[p].Metrics[key])

Reverse(s) == [p \in 1..Len(s) |-> s[Len(s) + 1 - p]]

\* What the evaluating service may do with a request.  It is not reachable,
\* answers with another status, answers with a body that does not decode, or
\* answers with a score list: empty; one equal score for every distribution,
\* listed in the order of the request or reversed; a rank by least power; the
\* number of clusters given replicas.
FailingEvaluators == {"unreachable", "non200", "undecodable"}

ScoringEvaluators == {"empty", "flat", "flatReversed", "leastPower", "spread"}

Evaluators == FailingEvaluators \cup ScoringEvaluators

ScoreListOf(evaluator, D) ==
    CASE evaluator = "empty" -> <<>>
      [] evaluator = "flat" -> [p \in 1..Len(D) |-> [ID |-> D[p].ID, Score |-> 1]]
      [] evaluator = "flatReversed" ->
            Reverse([p \in 1..Len(D) |-> [ID |-> D[p].ID, Score |-> 1]])
      [] evaluator = "leastPower" ->
            [p \in 1..Len(D) |->
                [ID |-> D[p].ID,
                 Score |-> Cardinality({q \in 1..Len(D) :
                              ~RGt(MGet(D[p].Metrics, "power"), MGet(D[q].Metrics, "power"))})]]
      [] evaluator = "spread" ->
            [p \in 1..Len(D) |->
                [ID |-> D[p].ID,
                 Score |-> Cardinality({c \in DOMAIN D[p].Allocation :
                                          D[p].Allocation[c] > 0})]]

\* the status of the answer not looked at: the body of a refusal decodes to a
\* response without scores
EvaluateDistributionsAnyStatus(request, evaluator) ==
    IF MarshalFails(request)
    THEN [err |-> TRUE, sent |-> FALSE, response |-> NoResponse]
    ELSE IF evaluator \in {"unreachable", "undecodable"}
    THEN [err |-> TRUE, sent |-> (evaluator # "unreachable"), response |-> NoResponse]
    ELSE [err |-> FALSE, sent |-> TRUE,
          response |-> [nil |-> FALSE,
                        Scores |-> IF evaluator = "non200" THEN <<>>
                                   ELSE ScoreListOf(evaluator, request.Distributions)]]

\* EvaluateDistributions (ahp.go:17-41): sent tells whether the request left
EvaluateDistributions(request, evaluator) ==
    IF MarshalFails(request)
    THEN [err |-> TRUE, sent |-> FALSE, response |-> NoResponse]
    ELSE IF evaluator \in FailingEvaluators
    THEN [err |-> TRUE, sent |-> (evaluator # "unreachable"), response |-> NoResponse]
    ELSE [err |-> FALSE, sent |-> TRUE,
          response |-> [nil |-> FALSE,
                        Scores |-> ScoreListOf(evaluator, request.Distributions)]]

----------------------------------------------------------------------------
(* NormalizeScore *)

\* const multiplier = 1000 (line 167)
multiplier == 1000

\* lines 154-159
hasZeroAllocations(allocation) == \E c \in DOMAIN allocation : allocation[c] = 0

\* the weight with the multiplier applied to a cluster without replicas too
WeightOfNoFloor(hasZero, replicaCount) ==
    IF hasZero THEN replicaCount * multiplier ELSE replicaCount

\* lines 165-174
WeightOf(hasZero, replicaCount) ==
    IF hasZero
    THEN (IF replicaCount > 0 THEN replicaCount * multiplier ELSE 1)
    ELSE replicaCount

\* the loop of lines 161-178 over the score list, writing bestDist.Allocation
RECURSIVE WeightLoop(_, _, _, _)
WeightLoop(scoreList, i, hasZero, allocation) ==
    IF i > Len(scoreList) THEN allocation
    ELSE WeightLoop(scoreList, i + 1, hasZero,
                    (scoreList[i] :> WeightOf(hasZero, Get(allocation, scoreList[i])))
                        @@ allocation)

\* the keys of every allocation map GenerateAllDistributions builds
AllocationKeys(clusterNames) ==
    IF Len(clusterNames) < 3 THEN {}
    ELSE {clusterNames[1], clusterNames[2], clusterNames[3]}

\* every element kept
FilterKeepsAll(s, keep, p) == s

\* the elements of a sequence that satisfy keep, in order (lines 116-122)
RECURSIVE Filter(_, _, _)
Filter(s, keep, p) ==
    IF p > Len(s) THEN <<>>
    ELSE IF keep[p] THEN <<s[p]>> \o Filter(s, keep, p + 1)
    ELSE Filter(s, keep, p + 1)

\* the guard with 0 replicas let through
NoReplicasNegativeOnly(n) == n < 0

\* if totalReplicas <= 0 (line 99)
NoReplicas(n) == n <= 0

\* NormalizeScore up to its feasibility check (lines 83-127) on the plugin p
\* and the score list, visiting every allocation map in the given order: the
\* result, if the call ends there, and what it computed
ListFeasible(p, scoreList, order) ==
    LET clusterNames == scoreList
        clusterMetricsMap ==
            [c \in Range(scoreList) \cap DOMAIN p.metricsStore |-> p.metricsStore[c]]
        n == p.totalReplicas
        start == [NoNorm EXCEPT !.demand = [totalReplicas |-> n,
                                            cpuPerReplica |-> p.cpuPerReplica,
                                            memoryPerReplica |-> p.memoryPerReplica]]
    IN
    IF NoReplicas(n) THEN [start EXCEPT !.result = Success]
    ELSE IF GenPanics(clusterNames, n) THEN [start EXCEPT !.result = "panic"]
    ELSE
      LET generated == GenerateAllDistributions(clusterNames, n)
          \* the loop of lines 118-122; SubSeq yields the sequence of its
          \* results, each computed once
          calc == SubSeq([i \in 1..Len(generated) |->
                            CalculateDistributionMetrics(generated[i], clusterMetricsMap,
                                                         p.cpuPerReplica,
                                                         p.memoryPerReplica, order)],
                         1, Len(generated))
          distributions == [i \in 1..Len(generated) |-> calc[i].dist]
          feasible == Filter(distributions,
                             [i \in 1..Len(generated) |-> calc[i].feasible], 1)
          listed == [start EXCEPT !.distributions = distributions,
                                  !.feasible = feasible]
      IN
      IF \E i \in 1..Len(generated) : calc[i].hangs THEN [start EXCEPT !.result = "hangs"]
      ELSE IF Len(feasible) = 0 THEN [listed EXCEPT !.result = Error] ELSE listed

\* the rest of NormalizeScore (lines 129-185) with the evaluator's behaviour
SelectAndWeigh(listed, scoreList, evaluator) ==
    IF listed.result # "none" THEN listed
    ELSE
        LET feasible == listed.feasible
            request == [Distributions |-> feasible,
                        Criteria |-> getCriteriaForProfile(selectedProfile)]
            answer == EvaluateDistributions(request, evaluator)
            asked == [listed EXCEPT !.request = request, !.evaluator = evaluator,
                                    !.requested = answer.sent,
                                    !.response = answer.response]
        IN
        IF answer.err THEN [asked EXCEPT !.result = Error]
        ELSE
          LET bestDist == FindBestDistribution(feasible, answer.response)
          IN
          IF bestDist.nil THEN [asked EXCEPT !.result = Error]
          ELSE [asked EXCEPT
                  !.result = Success,
                  !.best = bestDist,
                  !.launched = TRUE,
                  !.weights = WeightLoop(scoreList, 1,
                                         hasZeroAllocations(bestDist.dist.Allocation),
                                         bestDist.dist.Allocation)]

----------------------------------------------------------------------------
(* Spec: the host runs scheduling decisions against one plugin instance *)

ReplicaChoices == {0, MaxReplicas}

\* spec.ReplicaRequirements: nil, cpu and memory, cpu alone, memory alone and
\* more than any node has
RequirementChoices ==
    {[HasRequirements |-> FALSE, ResourceRequest |-> [k \in {} |-> 0]],
     [HasRequirements |-> TRUE, ResourceRequest |-> [k \in {"cpu", "memory"} |->
                                                      IF k = "cpu" THEN 2 ELSE 1]],
     [HasRequirements |-> TRUE, ResourceRequest |-> [k \in {"cpu"} |-> 3]],
     [HasRequirements |-> TRUE, ResourceRequest |-> [k \in {"memory"} |-> 17]]}

SpecChoices ==
    {[Replicas |-> r, HasRequirements |-> q.HasRequirements,
      ResourceRequest |-> q.ResourceRequest] :
        r \in ReplicaChoices, q \in RequirementChoices}

\* the clusters that passed the filters, in the order the host lists them
ScoreLists ==
    {<<"edge", "fog", "cloud">>, <<"cloud", "fog", "edge">>,
     <<"edge", "fog">>, <<"edge", "fog", "cloud", "far">>}

\* the labels the clusters carry while a decision is made
LabelWorlds ==
    {[c \in ClusterPool |-> ReferenceLabels(c)],
     [c \in ClusterPool |->
        CASE c = "edge" -> SmallLabels(c)
          [] c = "fog" -> SparseLabels(c)
          [] OTHER -> ReferenceLabels(c)]}

Init == NewPlugin /\ HostIdle /\ call = [fn |-> "none"]

\* the host takes up a binding and its candidate clusters
Begin(specs, lists, worlds) ==
    /\ phase \in {"idle", "normalized"}
    /\ decisions < MaxDecisions
    /\ \E sp \in specs, list \in lists, world \in worlds :
         /\ spec' = sp
         /\ scores' = list
         /\ labels' = [c \in Range(list) |-> world[c]]
         /\ scorePc' = [c \in Range(list) |-> "start"]
         /\ scoreRet' = [c \in Range(list) |-> <<>>]
    /\ phase' = "scoring"
    /\ decisions' = decisions + 1
    /\ pre' = PluginState
    /\ norm' = NoNorm
    /\ overlap' = FALSE
    /\ UNCHANGED <<pluginVars, call>>

BeginDecision ==
    /\ Begin(SpecChoices, ScoreLists, LabelWorlds)
    /\ UNCHANGED asyncVars

\* Score, lines 46-56: the demand fields are written
ScoreCapture(c) ==
    /\ phase = "scoring"
    /\ scorePc[c] = "start"
    /\ totalReplicas' = CapturedReplicas(totalReplicas, spec)
    /\ cpuPerReplica' = CapturedRequest(cpuPerReplica, spec, "cpu")
    /\ memoryPerReplica' = CapturedRequest(memoryPerReplica, spec, "memory")
    /\ scorePc' = [scorePc EXCEPT ![c] = "captured"]
    /\ overlap' = (overlap \/ \E d \in DOMAIN scorePc : d # c /\ scorePc[d] = "captured")
    /\ UNCHANGED <<metricsStore, phase, decisions, spec, scores, labels, scoreRet,
                   pre, norm, asyncVars, call>>

\* Score, lines 62-69: the metrics are collected and stored, the call returns
ScoreStore(c) ==
    /\ phase = "scoring"
    /\ scorePc[c] = "captured"
    /\ metricsStore' = StoreMetrics(metricsStore, c, CollectMetrics(c, labels[c]))
    /\ scoreRet' = [scoreRet EXCEPT ![c] = [score |-> MinClusterScore, code |-> Success]]
    /\ scorePc' = [scorePc EXCEPT ![c] = "returned"]
    /\ UNCHANGED <<totalReplicas, cpuPerReplica, memoryPerReplica, phase, decisions,
                   spec, scores, labels, pre, norm, overlap, asyncVars, call>>

\* the list the host passes to NormalizeScore (line 79): one entry for each
\* cluster that passed the filters, with what its Score call returned
ClusterScoreList ==
    [i \in 1..Len(scores) |->
        [Cluster |-> scores[i], Score |-> scoreRet[scores[i]].score]]

\* the weight of the cluster written into the Score of its entry
ScoreTakesWeight(entry, n) ==
    IF n.launched /\ entry.Cluster \in DOMAIN n.weights
    THEN [entry EXCEPT !.Score = ToString(n.weights[entry.Cluster])]
    ELSE entry

\* an entry of the score list when NormalizeScore has ended with n: lines
\* 86-93 and 161-162 read scores[i].Cluster.Name, lines 165-174 assign to
\* bestDist.Allocation, and no statement assigns to an entry
EntryAfter(entry, n) == entry

\* NormalizeScore ends with n: the list it received, as the caller finds it
Leave(scoreList, n) ==
    [n EXCEPT !.scores = [i \in 1..Len(scoreList) |-> EntryAfter(scoreList[i], n)]]

\* NormalizeScore (lines 78-186)
NormalizeOutcome(p, scoreList, evaluator, order) ==
    SelectAndWeigh(ListFeasible(p, scoreList, order), scoreList, evaluator)

\* NormalizeScore, called once every Score call of the decision has returned;
\* a panic ends the scheduler process.  The goroutine of line 183 shares no
\* state with the plugin or the host: here its start is recorded in
\* norm.launched and norm.weights, and SpecPublish follows its steps.
NormalizeScore ==
    /\ phase = "scoring"
    /\ \A c \in DOMAIN scorePc : scorePc[c] = "returned"
    /\ \E listed \in {ListFeasible(PluginState, scores, order) :
                          order \in Orders(AllocationKeys(scores))} :
         \E evaluator \in Evaluators :
            norm' = Leave(ClusterScoreList, SelectAndWeigh(listed, scores, evaluator))
    /\ phase' = CASE norm'.result = "panic" -> "crashed"
                  [] norm'.result = "hangs" -> "hung"
                  [] OTHER -> "normalized"
    /\ UNCHANGED <<pluginVars, decisions, spec, scores, labels, scorePc, scoreRet,
                   pre, overlap, asyncVars, call>>

Next ==
    \/ BeginDecision
    \/ \E c \in ClusterPool : c \in DOMAIN scorePc /\ ScoreCapture(c)
    \/ \E c \in ClusterPool : c \in DOMAIN scorePc /\ ScoreStore(c)
    \/ NormalizeScore

Spec == Init /\ [][Next]_vars

----------------------------------------------------------------------------
(* Properties of Spec *)

AllScoresReturned ==
    phase = "scoring" /\ \A c \in DOMAIN scorePc : scorePc[c] = "returned"

\* every allocation the last NormalizeScore generated, kept as feasible, put
\* in the request or selected
Handled ==
    Range(norm.distributions) \cup Range(norm.feasible)
        \cup Range(norm.request.Distributions)
        \cup (IF norm.best.nil THEN {} ELSE {norm.best.dist})

\* C1: every allocation GenerateAllDistributions emits for N requested
\* replicas, and so every allocation NormalizeScore evaluates, sends to the
\* evaluator or selects as winner, has replica counts that sum to N.
C1_AllocationsSumToReplicas ==
    phase = "normalized" =>
        \A d \in Handled : MapSum(d.Allocation) = spec.Replicas

C1_Witness ==
    /\ phase = "normalized"
    /\ spec.Replicas = MaxReplicas
    /\ norm.requested
    /\ ~norm.best.nil
    /\ Len(norm.feasible) > 1
    /\ Len(norm.feasible) < Len(norm.distributions)

AllPositiveWinner ==
    /\ phase = "normalized"
    /\ ~norm.best.nil
    /\ \A c \in DOMAIN norm.best.dist.Allocation : norm.best.dist.Allocation[c] > 0
    /\ \A c \in DOMAIN norm.best.dist.Allocation : norm.weights[c] = 1

\* the demand a spec states; a resource it does not carry is no demand
DemandOf(sp) ==
    [totalReplicas |-> sp.Replicas,
     cpuPerReplica |->
        IF sp.HasRequirements /\ "cpu" \in DOMAIN sp.ResourceRequest
        THEN sp.ResourceRequest["cpu"] ELSE 0,
     memoryPerReplica |->
        IF sp.HasRequirements /\ "memory" \in DOMAIN sp.ResourceRequest
        THEN sp.ResourceRequest["memory"] ELSE 0]

\* C7: the demand (replicas, cpuPerReplica, memoryPerReplica) NormalizeScore
\* uses for a decision is the demand of the spec passed to that decision's
\* Score calls; no demand value of an earlier decision is used.
C7_DemandOfThisDecision ==
    phase = "normalized" => norm.demand = DemandOf(spec)

\* C8: once every concurrent Score call of a decision has returned, the cache
\* maps each scored cluster to the metrics collected from it and the demand
\* fields hold the values of the decision's spec, so that NormalizeScore sees
\* the state a serial execution leaves.
C8_CacheAndDemandAfterScores ==
    AllScoresReturned =>
        /\ \A c \in Range(scores) :
              /\ c \in DOMAIN metricsStore
              /\ metricsStore[c] = CollectMetrics(c, labels[c])
        /\ [totalReplicas |-> totalReplicas, cpuPerReplica |-> cpuPerReplica,
            memoryPerReplica |-> memoryPerReplica] = DemandOf(spec)
        /\ PluginState = SerialScores(pre, spec, scores, labels, 1)

\* what holds of concurrent Score calls: the plugin is as a serial execution
\* from the same start leaves it, the cache is that of this decision, and the
\* demand fields the spec carries hold the spec's values
ConcurrentAsSerial ==
    AllScoresReturned =>
        /\ PluginState = SerialScores(pre, spec, scores, labels, 1)
        /\ \A c \in Range(scores) :
              /\ c \in DOMAIN metricsStore
              /\ metricsStore[c] = CollectMetrics(c, labels[c])
        /\ totalReplicas = spec.Replicas
        /\ \A resource \in DOMAIN spec.ResourceRequest :
              spec.ResourceRequest[resource] =
                 IF resource = "cpu" THEN cpuPerReplica ELSE memoryPerReplica

ConcurrentAsSerialWitness == AllScoresReturned /\ overlap /\ decisions = MaxDecisions

\* C9: every Score call returns MinClusterScore with Success and leaves the
\* cache entry of its cluster equal to the metrics collected in the call,
\* overwriting an earlier entry; the entries of other clusters are unchanged.
C9_ScoreReturnsAndCaches ==
    phase = "scoring" =>
        \A c \in ClusterPool :
            IF c \in DOMAIN scorePc /\ scorePc[c] = "returned"
            THEN /\ scoreRet[c] = [score |-> MinClusterScore, code |-> Success]
                 /\ c \in DOMAIN metricsStore
                 /\ metricsStore[c] = CollectMetrics(c, labels[c])
            ELSE /\ (c \in DOMAIN metricsStore) = (c \in DOMAIN pre.metricsStore)
                 /\ c \in DOMAIN metricsStore => metricsStore[c] = pre.metricsStore[c]

\* a call has replaced an earlier entry of its cluster, next to the entry of a
\* cluster that is not scored in this decision
C9_Witness ==
    /\ phase = "scoring"
    /\ \E c \in DOMAIN scorePc :
         /\ scorePc[c] = "returned"
         /\ c \in DOMAIN pre.metricsStore
         /\ metricsStore[c] # pre.metricsStore[c]
    /\ \E d \in DOMAIN metricsStore : d \notin DOMAIN scorePc

\* the first clusters of the score list, as an order over an allocation map
ListOrder(scoreList) == IF Len(scoreList) < 3 THEN <<>> ELSE SubSeq(scoreList, 1, 3)

\* C10: for a fixed score list and a deterministic evaluator, the Score calls
\* of a decision made in any order, followed by NormalizeScore, yield the same
\* result, winner and weights: those of the calls made in score-list order.
C10_OrderOfScoreCalls ==
    phase \in {"normalized", "crashed"} =>
        \A listed \in {ListFeasible(SerialScores(pre, spec, scores, labels, 1),
                                     scores, ListOrder(scores))} :
          \A serial \in {IF norm.evaluator = "none" THEN listed
                         ELSE SelectAndWeigh(listed, scores, norm.evaluator)} :
            /\ norm.result = serial.result
            /\ norm.best = serial.best
            /\ norm.weights = serial.weights

C10_Witness ==
    /\ phase = "normalized"
    /\ overlap
    /\ decisions = MaxDecisions
    /\ norm.evaluator = "leastPower"
    /\ ~norm.best.nil
    /\ Len(norm.feasible) < Len(norm.distributions)

----------------------------------------------------------------------------
(* Properties of Spec: the ways a decision ends *)

\* C11: when the captured replica count is <= 0, NormalizeScore returns
\* Success, sends no request to the evaluator and publishes no weight.
C11_NoReplicasNoAction ==
    (phase = "normalized" /\ totalReplicas <= 0) =>
        /\ norm.result = Success
        /\ ~norm.requested
        /\ norm.evaluator = "none"
        /\ ~norm.launched
        /\ DOMAIN norm.weights = {}

\* a decision for 0 replicas on a plugin that has cached three clusters
C11_Witness ==
    /\ phase = "normalized"
    /\ totalReplicas = 0
    /\ Len(scores) >= 3
    /\ \A c \in Range(scores) : c \in DOMAIN metricsStore
    /\ norm.result = Success

CarriesBoth(sp) ==
    sp.HasRequirements /\ {"cpu", "memory"} \subseteq DOMAIN sp.ResourceRequest

\* C12: when the spec carries no cpu or no memory request, the decision ends
\* with Success and without action: no request is sent to the evaluator and
\* no weights are produced.
C12_MissingDemandNoAction ==
    (phase = "normalized" /\ ~CarriesBoth(spec)) =>
        /\ norm.result = Success
        /\ ~norm.requested
        /\ ~norm.launched
        /\ DOMAIN norm.weights = {}

\* the enumerated allocations that pass the feasibility rule, in order
RECURSIVE PassingIDs(_, _, _, _, _)
PassingIDs(generated, clusterMetrics, cpu, mem, p) ==
    IF p > Len(generated) THEN <<>>
    ELSE (IF FeasibleByRule(generated[p], clusterMetrics, cpu, mem)
          THEN <<[ID |-> generated[p].ID, Allocation |-> generated[p].Allocation]>>
          ELSE <<>>)
         \o PassingIDs(generated, clusterMetrics, cpu, mem, p + 1)

Passing ==
    PassingIDs(GenerateAllDistributions(scores, totalReplicas),
               [c \in Range(scores) \cap DOMAIN metricsStore |-> metricsStore[c]],
               cpuPerReplica, memoryPerReplica, 1)

\* C13: the distributions of the request are the enumerated allocations that
\* passed feasibility, in enumeration order, and no other; when none passes,
\* NormalizeScore returns Error, sends no request and publishes no weight.
C13_OnlyFeasibleSent ==
    (phase = "normalized" /\ totalReplicas > 0) =>
        /\ norm.requested =>
              [p \in 1..Len(norm.request.Distributions) |->
                  [ID |-> norm.request.Distributions[p].ID,
                   Allocation |-> norm.request.Distributions[p].Allocation]] = Passing
        /\ Len(Passing) = 0 =>
              /\ norm.result = Error
              /\ ~norm.requested
              /\ ~norm.launched

\* a request that leaves some enumerated allocations out
C13_Witness ==
    /\ phase = "normalized"
    /\ norm.requested
    /\ Len(norm.request.Distributions) > 1
    /\ Len(norm.request.Distributions) < Len(norm.distributions)

\* a decision in which no allocation is feasible
NothingFeasible ==
    /\ phase = "normalized"
    /\ Len(norm.distributions) > 0
    /\ Len(norm.feasible) = 0
    /\ norm.result = Error

\* C14: when the evaluator is unreachable, answers with another status than
\* 200 or with a body that does not decode, EvaluateDistributions returns an
\* error, NormalizeScore returns Error and no weight is published.
C14_EvaluatorFailure ==
    (phase = "normalized" /\ norm.evaluator \in FailingEvaluators) =>
        /\ norm.response.nil
        /\ norm.result = Error
        /\ norm.best.nil
        /\ ~norm.launched

C14_Witness ==
    /\ phase = "normalized"
    /\ norm.evaluator = "non200"
    /\ norm.requested
    /\ norm.result = Error

\* C15: when the evaluator returns an empty score list, FindBestDistribution
\* returns none and NormalizeScore returns Error without publishing a weight.
C15_EmptyScores ==
    (phase = "normalized" /\ ~norm.response.nil /\ Len(norm.response.Scores) = 0) =>
        /\ norm.best.nil
        /\ norm.result = Error
        /\ ~norm.launched
        /\ DOMAIN norm.weights = {}

C15_Witness ==
    /\ phase = "normalized"
    /\ norm.evaluator = "empty"
    /\ ~norm.response.nil
    /\ Len(norm.feasible) > 0
    /\ norm.result = Error

\* C20: every distribution of a request carries a metric under each criterion
\* name of the criteria profile of that request.
C20_MetricForEveryCriterion ==
    (phase = "normalized" /\ norm.requested) =>
        \A p \in 1..Len(norm.request.Distributions) :
            \A c \in DOMAIN norm.request.Criteria :
                c \in DOMAIN norm.request.Distributions[p].Metrics

----------------------------------------------------------------------------
(* SpecCriteria: getCriteriaForProfile applied to profile names *)

ProfileStems == Criteria \cup {"latency", "balance", ""}

ProfileSuffixes == {"", "30", "50", "3", "5", "0", "300"}

ProfileNames == {stem \o suffix : stem \in ProfileStems, suffix \in ProfileSuffixes}

InitCriteria ==
    /\ NewPlugin /\ HostIdle
    /\ \E profile \in ProfileNames :
         call = [fn |-> "getCriteriaForProfile", pc |-> "ready", profile |-> profile,
                 out |-> NoRequest.Criteria]

CriteriaCall ==
    /\ call.pc = "ready"
    /\ call' = [call EXCEPT !.pc = "returned", !.out = getCriteriaForProfile(call.profile)]
    /\ UNCHANGED <<pluginVars, hostVars>>

NextCriteria == CriteriaCall

SpecCriteria == InitCriteria /\ [][NextCriteria]_vars

\* the profile gives the criterion target the weight high and every other
\* criterion the weight low
Favours(profile, target, high, low) ==
    \A c \in Criteria :
        c \in DOMAIN profile
            /\ profile[c].Weight = (IF c = target THEN high ELSE low)

\* the sum of the weights of a profile
RECURSIVE WeightSum(_, _)
WeightSum(profile, S) ==
    IF S = {} THEN RInt(0)
    ELSE LET c == CHOOSE x \in S : TRUE
         IN RAdd(profile[c].Weight, WeightSum(profile, S \ {c}))

\* C19: for each of the five criterion names c, the profile named c followed
\* by 30 gives c the weight 0.30 and the others 0.175, the profile named c
\* followed by 50 gives c 0.50 and the others 0.125, balance gives all 0.20;
\* every profile returned has these five criteria, weights that sum to 1 and
\* higher_is_better for utilization alone.
C19_ProfileTable ==
    call.pc = "returned" =>
        /\ \A c \in Criteria :
              /\ call.profile = c \o "30" =>
                    Favours(call.out, c, Rat(300, 1000), Rat(175, 1000))
              /\ call.profile = c \o "50" =>
                    Favours(call.out, c, Rat(500, 1000), Rat(125, 1000))
        /\ call.profile = "balance" =>
              Favours(call.out, "power", Rat(200, 1000), Rat(200, 1000))
        /\ DOMAIN call.out = Criteria
        /\ WeightSum(call.out, DOMAIN call.out) = RInt(1)
        /\ \A c \in DOMAIN call.out : call.out[c].HigherIsBetter = (c = "utilization")

\* what holds of the code: the table of the profile names it knows, with
\* latency30 and latency50 for the weighted latency, and balance for any
\* other name
ProfileTableOfCode ==
    call.pc = "returned" =>
        /\ \A c \in Criteria :
              LET stem == IF c = "weighted_latency" THEN "latency" ELSE c
              IN /\ call.profile = stem \o "30" =>
                       Favours(call.out, c, Rat(300, 1000), Rat(175, 1000))
                 /\ call.profile = stem \o "50" =>
                       Favours(call.out, c, Rat(500, 1000), Rat(125, 1000))
        /\ call.profile \in {"weighted_latency30", "weighted_latency50", "balance"} =>
              Favours(call.out, "power", Rat(200, 1000), Rat(200, 1000))
        /\ DOMAIN call.out = Criteria
        /\ WeightSum(call.out, DOMAIN call.out) = RInt(1)
        /\ \A c \in DOMAIN call.out : call.out[c].HigherIsBetter = (c = "utilization")

----------------------------------------------------------------------------
(* SpecPublish: the decisions of the host together with the goroutines     *)
(* that publish the weights and the context of the NormalizeScore call     *)

MaxPublishers == 2

PublishSpecs == {sp \in SpecChoices : ~sp.HasRequirements}

PublishLists == {<<"edge", "fog", "cloud">>, <<"edge", "fog">>}

PublishWorlds == {[c \in ClusterPool |-> ReferenceLabels(c)]}

\* what can happen to one http.Post of sendWeight: status 200, no connection,
\* another status
PostOutcomes == {"ok", "unreachable", "non200"}

\* the goroutine of `go UpdateClusterWeights(bestDist)` (line 183) before its
\* first iteration; posts counts the POSTs made for each cluster
NewPublisher(decision, allocation) ==
    [decision |-> decision, allocation |-> allocation, todo |-> DOMAIN allocation,
     posts |-> [c \in DOMAIN allocation |-> 0], failures |-> 0]

\* sendWeight (distribution_updater.go lines 91-115): the payload of a string
\* and an int64 always marshals, the POST is made, a failure is logged
sendWeight(g, clusterName, outcome) ==
    [g EXCEPT !.posts[clusterName] = @ + 1,
              !.failures = IF outcome = "ok" THEN @ ELSE @ + 1]

\* a failed POST ends the loop
RemainingNoneAfterFailure(todo, clusterName, outcome) ==
    IF outcome = "ok" THEN todo \ {clusterName} ELSE {}

\* the key just visited is visited again
RemainingKeepsKey(todo, clusterName, outcome) == todo

\* the keys the range loop of lines 81-87 has yet to visit: sendWeight returns
\* nothing, the loop goes on to the next key
Remaining(todo, clusterName, outcome) == todo \ {clusterName}

\* what a NormalizeScore call returned, and the clusters of its winner
Returned(n) ==
    [result |-> n.result,
     winner |-> IF n.best.nil THEN {} ELSE DOMAIN n.best.dist.Allocation]

\* the host takes up a binding; NormalizeScore will get a fresh context
PublishBegin ==
    /\ Len(publishers) < MaxPublishers
    /\ Begin(PublishSpecs, PublishLists, PublishWorlds)
    /\ ctx' = "live"
    /\ UNCHANGED <<publishers, returned>>

\* NormalizeScore up to the call of EvaluateDistributions (lines 78-134): it
\* returns early, panics, or waits for the answer of the AHP service
NormalizeSend ==
    /\ phase = "scoring"
    /\ \A c \in DOMAIN scorePc : scorePc[c] = "returned"
    /\ \E listed \in {ListFeasible(PluginState, scores, order) :
                          order \in Orders(AllocationKeys(scores))} :
         /\ norm' = IF listed.result = "none" THEN listed
                    ELSE Leave(ClusterScoreList, listed)
         /\ phase' = CASE listed.result = "none" -> "evaluating"
                       [] listed.result = "panic" -> "crashed"
                       [] listed.result = "hangs" -> "hung"
                       [] OTHER -> "normalized"
         /\ returned' = IF listed.result \in {Success, Error}
                        THEN Append(returned, Returned(listed))
                        ELSE returned
    /\ UNCHANGED <<pluginVars, decisions, spec, scores, labels, scorePc, scoreRet,
                   pre, overlap, publishers, ctx, call>>

\* the host cancels the context while http.Post of ahp.go line 24 is waiting
CancelContext ==
    /\ phase = "evaluating"
    /\ ctx = "live"
    /\ ctx' = "cancelled"
    /\ UNCHANGED <<pluginVars, phase, decisions, spec, scores, labels, scorePc,
                   scoreRet, pre, norm, overlap, publishers, returned, call>>

\* NormalizeScore from the answer of the AHP service to its return (lines
\* 134-185); ctx is not read (http.Post takes no context), the goroutine is
\* started on the Success path
NormalizeReceive ==
    /\ phase = "evaluating"
    /\ \E evaluator \in Evaluators :
         norm' = Leave(ClusterScoreList, SelectAndWeigh(norm, scores, evaluator))
    /\ phase' = "normalized"
    /\ publishers' = IF norm'.launched
                     THEN Append(publishers, NewPublisher(decisions, norm'.weights))
                     ELSE publishers
    /\ returned' = Append(returned, Returned(norm'))
    /\ UNCHANGED <<pluginVars, decisions, spec, scores, labels, scorePc, scoreRet,
                   pre, overlap, ctx, call>>

\* one iteration of the loop of UpdateClusterWeights (lines 81-87) in the
\* i-th goroutine: Go visits the keys of the map in any order
UpdateClusterWeights(i) ==
    /\ phase # "crashed"
    /\ publishers[i].todo # {}
    /\ \E clusterName \in publishers[i].todo, outcome \in PostOutcomes :
         LET sent == sendWeight(publishers[i], clusterName, outcome)
         IN publishers' =
              [publishers EXCEPT ![i] =
                  [sent EXCEPT !.todo = Remaining(sent.todo, clusterName, outcome)]]
    /\ UNCHANGED <<pluginVars, phase, decisions, spec, scores, labels, scorePc,
                   scoreRet, pre, norm, overlap, ctx, returned, call>>

NextPublish ==
    \/ PublishBegin
    \/ \E c \in ClusterPool : c \in DOMAIN scorePc /\ ScoreCapture(c)
    \/ \E c \in ClusterPool : c \in DOMAIN scorePc /\ ScoreStore(c)
    \/ NormalizeSend
    \/ CancelContext
    \/ NormalizeReceive
    \/ \E i \in DOMAIN publishers : UpdateClusterWeights(i)

SpecPublish == Init /\ [][NextPublish]_vars

\* the publisher has left its loop
Finished(g) == g.todo = {}

\* the publishers started by decision d
PublishersOf(d) == {i \in DOMAIN publishers : publishers[i].decision = d}

\* C16: the result NormalizeScore returns does not depend on the outcome of
\* publishing: every publisher belongs to a call that returned Success, the
\* result of the current decision stays Success whatever its POSTs met, and
\* a publisher that has left its loop has made a POST for every cluster of
\* its allocation, failed POSTs or not.
C16_PublishingIsAdvisory ==
    \A i \in DOMAIN publishers :
        LET g == publishers[i]
        IN /\ g.decision \in DOMAIN returned
           /\ returned[g.decision].result = Success
           /\ g.decision = decisions => (phase = "normalized" /\ norm.result = Success)
           /\ Finished(g) => \A c \in DOMAIN g.allocation : g.posts[c] >= 1

\* every POST of a publisher failed and every cluster had its POST
C16_Witness ==
    \E i \in DOMAIN publishers :
        LET g == publishers[i]
        IN /\ Finished(g)
           /\ Cardinality(DOMAIN g.allocation) = 3
           /\ g.failures = 3
           /\ \A c \in DOMAIN g.allocation : g.posts[c] = 1
           /\ g.decision = decisions
           /\ norm.result = Success

C18_CancelledIsError ==
    (phase = "normalized" /\ ctx = "cancelled") =>
        /\ norm.result = Error
        /\ ~norm.launched
        /\ PublishersOf(decisions) = {}

----------------------------------------------------------------------------
(* SpecPack: binPackNodes applied to bounded inputs *)

PackReplicas == 4
PackDemand == 3
PackNode == 4

\* float64(cpuPerReplica), float64(memoryPerReplica): whole numbers
PackDemands == {RInt(n) : n \in 0..PackDemand}

\* the capacity of a worker node: any parsed label value
PackNodes == {RInt(n) : n \in 0..PackNode} \cup {Rat(5, 2), RInt(2 * PackNode)}

InitPack ==
    /\ NewPlugin /\ HostIdle
    /\ \E r \in 0..PackReplicas, cpu \in PackDemands, mem \in PackDemands,
          nodeCPU \in PackNodes, nodeMem \in PackNodes :
         call = [fn |-> "binPackNodes", pc |-> "ready", replicaCount |-> r,
                 perReplicaCPU |-> cpu, perReplicaMem |-> mem,
                 nodeCPU |-> nodeCPU, nodeMem |-> nodeMem, out |-> 0]

\* the call returns, or its outer loop never ends
PackCall ==
    /\ call.pc = "ready"
    /\ LET nodes == binPackNodes(call.replicaCount, call.perReplicaCPU,
                                 call.perReplicaMem, call.nodeCPU, call.nodeMem)
       IN call' = [call EXCEPT !.pc = IF nodes = Diverges THEN "looping" ELSE "returned",
                               !.out = nodes]
    /\ UNCHANGED <<pluginVars, hostVars>>

NextPack == PackCall

SpecPack == InitPack /\ [][NextPack]_vars

\* k replicas are within both ceilings of one node
FitsNode(k, cpu, mem, nodeCPU, nodeMem) ==
    /\ ~RGt(RMul(RInt(k), cpu), nodeCPU)
    /\ ~RGt(RMul(RInt(k), mem), nodeMem)

\* the largest count of replicas, of at most r, one node takes
PerNode(r, cpu, mem, nodeCPU, nodeMem) ==
    CHOOSE m \in 1..r :
        /\ FitsNode(m, cpu, mem, nodeCPU, nodeMem)
        /\ \A k \in 1..r : FitsNode(k, cpu, mem, nodeCPU, nodeMem) => k <= m

\* the least number of nodes of m replicas each that hold r replicas
LeastNodes(r, m) == CHOOSE n \in 0..r : n * m >= r /\ \A k \in 0..r : k * m >= r => n <= k

\* C21: for a replica that fits one node binPackNodes returns the least
\* number of nodes holding r replicas when each node takes as many as fit
\* under both ceilings; so nodes(0) = 0, nodes(r) <= r, nodes(r+1) >= nodes(r),
\* and 4 replicas of 3000 mc and 2 GiB on nodes of 4000 mc and 8 GiB need 4.
C21_LeastNodes ==
    (call.pc # "ready"
       /\ FitsNode(1, call.perReplicaCPU, call.perReplicaMem, call.nodeCPU, call.nodeMem)) =>
        /\ call.pc = "returned"
        /\ call.replicaCount = 0 => call.out = 0
        /\ call.replicaCount > 0 =>
              call.out = LeastNodes(call.replicaCount,
                                    PerNode(call.replicaCount, call.perReplicaCPU,
                                            call.perReplicaMem, call.nodeCPU, call.nodeMem))
        /\ call.out <= call.replicaCount
        /\ binPackNodes(call.replicaCount + 1, call.perReplicaCPU, call.perReplicaMem,
                        call.nodeCPU, call.nodeMem) >= call.out
        /\ (call.replicaCount = 4 /\ call.perReplicaCPU = RInt(3) /\ call.perReplicaMem = RInt(2)
              /\ call.nodeCPU = RInt(4) /\ call.nodeMem = RInt(8)) => call.out = 4

\* a call whose nodes are filled by memory, two replicas each, the last one
\* half full
C21_Witness ==
    /\ call.pc = "returned"
    /\ call.replicaCount = 3
    /\ call.perReplicaCPU = RInt(1) /\ call.perReplicaMem = RInt(2)
    /\ call.nodeCPU = RInt(3) /\ call.nodeMem = RInt(4)
    /\ call.out = 2

----------------------------------------------------------------------------
(* SpecGuard: CalculateDistributionMetrics on clusters whose capacity      *)
(* labels are fractional, negative or missing                              *)

GuardReplicas == 2

\* a label text such as "2.5" or "-0.5"
Fraction(n, d) == [numeric |-> TRUE, value |-> Rat(n, d)]

\* worker nodes of two and a half CPU units
FractionLabels(c) == [ReferenceLabels(c) EXCEPT !["worker_cpu_capacity"] = Fraction(5, 2)]

\* a CPU capacity label between -1 and 0
DeficitLabels(c) == [ReferenceLabels(c) EXCEPT !["worker_cpu_capacity"] = Fraction(-1, 2)]

\* no max_worker_nodes label
UncappedLabels(c) ==
    [k \in RecognizedKeys \ {"max_worker_nodes"} |-> ReferenceLabels(c)[k]]

GuardVariants(c) ==
    {ReferenceLabels(c), SmallLabels(c), FractionLabels(c), DeficitLabels(c),
     UncappedLabels(c)}

GuardCpuRequests == {0, 2, 3}
GuardMemRequests == {0, 1}

InitGuard ==
    /\ NewPlugin /\ HostIdle
    /\ \E n \in 0..GuardReplicas :
         \E p \in 1..Len(GenerateAllDistributions(ThreeClusters, n)) :
         \E pick \in [Range(ThreeClusters) ->
                        UNION {GuardVariants(c) : c \in Range(ThreeClusters)}] :
         \E cpu \in GuardCpuRequests, mem \in GuardMemRequests :
           /\ \A c \in Range(ThreeClusters) : pick[c] \in GuardVariants(c)
           /\ call = [fn |-> "CalculateDistributionMetrics", pc |-> "ready",
                      dist |-> GenerateAllDistributions(ThreeClusters, n)[p],
                      clusterMetrics |->
                          [c \in Range(ThreeClusters) |-> CollectMetrics(c, pick[c])],
                      cpu |-> cpu, mem |-> mem, order |-> <<>>,
                      out |-> [feasible |-> FALSE, hangs |-> FALSE,
                               dist |-> NoDistribution]]

NextGuard == MetricsCall

SpecGuard == InitGuard /\ [][NextGuard]_vars

HangsOnlyBelowZero ==
    call.pc = "looping" =>
        \E c \in DOMAIN call.dist.Allocation, k \in {"cpu", "mem"} :
            LET capacity == MetricOf(call.clusterMetrics, c,
                                     IF k = "cpu" THEN "worker_cpu_capacity"
                                     ELSE "worker_memory_capacity")
                request == IF k = "cpu" THEN call.cpu ELSE call.mem
            IN /\ call.dist.Allocation[c] > 0
               /\ request = 0
               /\ RGt(RInt(0), capacity)
               /\ RGt(capacity, RInt(-1))

----------------------------------------------------------------------------
(* Properties of the metric bag (SpecMetrics) *)

WorkerNodesKey(c) == "worker_nodes_" \o c

\* the clusters to which the allocation gives replicas
Used(dist) == {c \in DOMAIN dist.Allocation : dist.Allocation[c] > 0}

\* the node counts read back from the metric bag
StoredNodes(dist, bag) == [c \in Used(dist) |-> bag[WorkerNodesKey(c)]]

\* fixed(c) over all clusters plus perNode(c) times the stored node count over
\* the clusters with replicas
AccountedFromBag(dist, clusterMetrics, bag, fixed, perNode) ==
    RAdd(RSum([c \in DOMAIN dist.Allocation |-> MetricOf(clusterMetrics, c, fixed)],
              DOMAIN dist.Allocation),
         RSum([c \in Used(dist) |->
                 RMul(MetricOf(clusterMetrics, c, perNode), bag[WorkerNodesKey(c)])],
              Used(dist)))

\* C23: for every feasible allocation and every cluster c with replicas the
\* bag holds under worker_nodes_<c> the bin packer's output for that
\* cluster's demand, the value the power, cost and utilization of the
\* allocation are computed with; clusters with 0 replicas have no such key.
C23_WorkerNodesStored ==
    (call.fn = "CalculateDistributionMetrics" /\ call.pc = "returned" /\ call.out.feasible) =>
        LET bag == call.out.dist.Metrics
        IN /\ \A c \in DOMAIN call.dist.Allocation :
                 IF call.dist.Allocation[c] > 0
                 THEN /\ WorkerNodesKey(c) \in DOMAIN bag
                      /\ bag[WorkerNodesKey(c)] =
                            RInt(binPackNodes(call.dist.Allocation[c], RInt(call.cpu),
                                    RInt(call.mem),
                                    MetricOf(call.clusterMetrics, c, "worker_cpu_capacity"),
                                    MetricOf(call.clusterMetrics, c, "worker_memory_capacity")))
                 ELSE WorkerNodesKey(c) \notin DOMAIN bag
           /\ \A k \in DOMAIN bag :
                 k \in {"power", "cost", "utilization", "load_balance_std_dev",
                        "weighted_latency"}
                       \cup {WorkerNodesKey(c) : c \in Used(call.dist)}
           /\ (\A c \in Used(call.dist) : WorkerNodesKey(c) \in DOMAIN bag) =>
                 /\ bag["power"] = AccountedFromBag(call.dist, call.clusterMetrics, bag,
                                                    "control_plane_power", "worker_power")
                 /\ bag["cost"] = AccountedFromBag(call.dist, call.clusterMetrics, bag,
                                                   "control_plane_cost", "worker_cost")
                 /\ bag["utilization"] =
                       Floor3(calculateUtilization(call.dist, call.clusterMetrics, call.cpu,
                                                   call.mem, StoredNodes(call.dist, bag)))

\* a feasible allocation with an idle cluster and a cluster that needs two
\* nodes or more
C23_Witness ==
    /\ call.fn = "CalculateDistributionMetrics" /\ call.pc = "returned"
    /\ call.out.feasible
    /\ \E c \in DOMAIN call.dist.Allocation : call.dist.Allocation[c] = 0
    /\ \E c \in Used(call.dist) :
          /\ WorkerNodesKey(c) \in DOMAIN call.out.dist.Metrics
          /\ RGt(call.out.dist.Metrics[WorkerNodesKey(c)], RInt(1))

\* C30: when CalculateDistributionMetrics rejects an allocation it leaves the
\* allocation's metric bag and replica counts as they were.
C30_RejectedUntouched ==
    (call.fn = "CalculateDistributionMetrics" /\ call.pc = "returned"
       /\ ~call.out.feasible) =>
        /\ call.out.dist.Metrics = call.dist.Metrics
        /\ call.out.dist.Allocation = call.dist.Allocation
        /\ call.out.dist.ID = call.dist.ID

\* an allocation rejected for the nodes of the cluster visited last, after
\* the control planes and the workers of the clusters before were summed
C30_Witness ==
    /\ call.fn = "CalculateDistributionMetrics" /\ call.pc = "returned"
    /\ ~call.out.feasible
    /\ DOMAIN call.dist.Allocation \subseteq DOMAIN call.clusterMetrics
    /\ Len(call.order) = 3
    /\ call.dist.Allocation[call.order[1]] > 0
    /\ LET c == call.order[3]
       IN /\ call.dist.Allocation[c] > 0
          /\ ~ExceedsCapacity(call.cpu, call.mem,
                              MetricOf(call.clusterMetrics, c, "worker_cpu_capacity"),
                              MetricOf(call.clusterMetrics, c, "worker_memory_capacity"))
          /\ ExceedsMaxNodes(RInt(NodesRequired(call.clusterMetrics, c,
                                                call.dist.Allocation[c], call.cpu, call.mem)),
                             MetricOf(call.clusterMetrics, c, "max_worker_nodes"))
    /\ \A p \in 1..2 :
          ~ExceedsCapacity(call.cpu, call.mem,
                           MetricOf(call.clusterMetrics, call.order[p], "worker_cpu_capacity"),
                           MetricOf(call.clusterMetrics, call.order[p], "worker_memory_capacity"))

----------------------------------------------------------------------------
(* Properties of the enumeration (SpecEnum) *)

\* the replica vector of an allocation over all the names given, a cluster
\* the allocation does not hold counting 0 (a Go map read)
CountsOf(allocation, clusterNames) ==
    [p \in 1..Len(clusterNames) |-> Get(allocation, clusterNames[p])]

\* v comes before w in lexicographic order
LexLess(v, w) ==
    \E p \in 1..Len(v) :
        /\ v[p] < w[p]
        /\ \A q \in 1..(p - 1) : v[q] = w[q]

\* C24: the identifier of an emitted allocation lists the allocation's replica
\* counts in the order of the cluster names given to the enumerator, so two
\* allocations of one enumeration with the same identifier have the same
\* replica vector.
C24_IdentifierInClusterOrder ==
    (call.fn = "GenerateAllDistributions" /\ call.pc = "returned") =>
        /\ \A p \in 1..Len(call.out) :
              LET allocation == call.out[p].Allocation
                  names == call.clusterNames
              IN /\ DOMAIN allocation = {names[1], names[2], names[3]}
                 /\ call.out[p].ID =
                       FormatID(allocation[names[1]], allocation[names[2]],
                                allocation[names[3]])
        /\ \A p, q \in 1..Len(call.out) :
              call.out[p].ID = call.out[q].ID =>
                  CountsOf(call.out[p].Allocation, call.clusterNames)
                      = CountsOf(call.out[q].Allocation, call.clusterNames)

\* an enumeration that holds (0,1,2) and (1,0,2): the order of the counts
\* tells them apart
C24_Witness ==
    /\ call.fn = "GenerateAllDistributions" /\ call.pc = "returned"
    /\ call.clusterNames = <<"cloud", "edge", "fog">>
    /\ \E p, q \in 1..Len(call.out) :
          /\ call.out[p].ID = "(0,1,2)"
          /\ call.out[p].Allocation = [cloud |-> 0, edge |-> 1, fog |-> 2]
          /\ call.out[q].ID = "(1,0,2)"

\* C25: the sequence GenerateAllDistributions returns is strictly increasing
\* in lexicographic order on the replica vector taken in cluster order, which
\* fixes the sequence for a given cluster sequence and N.
C25_LexicographicOrder ==
    (call.fn = "GenerateAllDistributions" /\ call.pc = "returned") =>
        \A p, q \in 1..Len(call.out) :
            p < q => LexLess(CountsOf(call.out[p].Allocation, call.clusterNames),
                             CountsOf(call.out[q].Allocation, call.clusterNames))

\* an enumeration of ten allocations from (0,0,3) to (3,0,0)
C25_Witness ==
    /\ call.fn = "GenerateAllDistributions" /\ call.pc = "returned"
    /\ Len(call.clusterNames) = 3
    /\ Len(call.out) = 10
    /\ CountsOf(call.out[1].Allocation, call.clusterNames) = <<0, 0, 3>>
    /\ CountsOf(call.out[10].Allocation, call.clusterNames) = <<3, 0, 0>>

----------------------------------------------------------------------------
(* Properties of the proportionality value *)

\* max_worker_nodes(c) * worker_cpu_capacity(c)
CapacityOf(clusterMetrics, c) ==
    RMul(MetricOf(clusterMetrics, c, "max_worker_nodes"),
         MetricOf(clusterMetrics, c, "worker_cpu_capacity"))

\* A[c]/N = capacityShare(c) for every cluster c of the metric map, stated
\* without a division: A[c] * total capacity = N * capacity(c)
Proportional(dist, clusterMetrics) ==
    LET S == DOMAIN clusterMetrics
        total == RSum([c \in S |-> CapacityOf(clusterMetrics, c)], S)
        n == MapSum(dist.Allocation)
    IN \A c \in S :
          RMul(RInt(Get(dist.Allocation, c)), total)
              = RMul(RInt(n), CapacityOf(clusterMetrics, c))

\* C26: the proportionality value stored for a feasible allocation with N > 0
\* is 0 if and only if A[c]/N equals capacityShare(c) for every cluster c.
C26_ZeroIffProportional ==
    (call.fn = "CalculateDistributionMetrics" /\ call.pc = "returned"
       /\ call.out.feasible /\ MapSum(call.dist.Allocation) > 0) =>
        (call.out.dist.Metrics["load_balance_std_dev"] = RInt(0)
            <=> Proportional(call.dist, call.clusterMetrics))

----------------------------------------------------------------------------
(* SpecCollect: CollectMetrics applied to the label maps of a cluster *)

\* what a cluster may carry under one key: nothing, a number, another text
LabelTexts == {Num(3), Fraction(5, 2), Garbage}

\* the label maps over the recognized keys and one key the plugin does not know
LabelMaps ==
    UNION {[K -> LabelTexts] : K \in SUBSET (RecognizedKeys \cup {"region"})}

InitCollect ==
    /\ NewPlugin /\ HostIdle
    /\ \E lbl \in LabelMaps :
         call = [fn |-> "CollectMetrics", pc |-> "ready", name |-> "edge",
                 labels |-> lbl, out |-> [Name |-> "", Metrics |-> NoMetrics]]

CollectCall ==
    /\ call.pc = "ready"
    /\ call' = [call EXCEPT !.pc = "returned",
                            !.out = CollectMetrics(call.name, call.labels)]
    /\ UNCHANGED <<pluginVars, hostVars>>

NextCollect == CollectCall

SpecCollect == InitCollect /\ [][NextCollect]_vars

\* the attribute keys CalculateDistributionMetrics and its helpers read
EvaluatorKeys ==
    {"max_worker_nodes", "control_plane_power", "control_plane_cost",
     "worker_cpu_capacity", "worker_memory_capacity", "worker_power", "worker_cost",
     "latency"}

\* the eight attribute keys of the specification
SpecifiedKeys ==
    {"worker_cpu_capacity", "worker_memory_capacity", "max_worker_nodes",
     "control_plane_power", "control_plane_cost", "worker_power", "worker_cost",
     "latency"}

----------------------------------------------------------------------------
(* Properties of the emitted weights and of the score list (Spec) *)

\* C28: after a NormalizeScore that returns Success with a winner, every
\* cluster of the score list has an emitted weight of at least 1.
C28_EveryWeightAtLeastOne ==
    (phase = "normalized" /\ norm.result = Success /\ ~norm.best.nil) =>
        \A p \in 1..Len(scores) :
            /\ scores[p] \in DOMAIN norm.weights
            /\ norm.weights[scores[p]] >= 1

====
